---- MODULE Spec2Model ----
(***************************************************************************)
(* Model of taskq's JobManager (src/job_manager.py): the persisted job     *)
(* collection, the persisted configuration, the worker threads started by  *)
(* start_workers and the control operations of the command line surface.   *)
(*                                                                         *)
(* Every section of code that runs under `with self._lock` is one action:  *)
(* the lock serialises those sections against each other and nothing else  *)
(* writes the job file.  The command execution between the two locked      *)
(* sections of process_job is the thread position "exec".                  *)
(* Timestamps are whole seconds of one clock; None is modelled by Null.    *)
(***************************************************************************)
EXTENDS Integers, Sequences, FiniteSets, TLC

\* ---- bounds of the model ------------------------------------------------
MaxJobs == 2
MaxThreads == 2
MaxCount == 2
MaxTime == 1
\* the clock of the one-job runs that follow a job through its retries
MaxClock == 4

\* ---- values of the program ----------------------------------------------
DefaultMaxRetries == 3
DefaultBackoffBase == 2
Null == 0 - 1
\* float("inf"), accepted by set_config for backoff_base
Inf == 1000000

\* values offered to enqueue_job(max_retries=...) and to set_config
RetryInputs == {0, 2}
ConfigRetryInputs == {0}
BaseInputs == {1, Inf}
IdInputs == 1..MaxJobs

VARIABLES jobs, config, workers, threads, now, ret, obs, saving

vars == <<jobs, config, workers, threads, now, ret, obs, saving>>

Threads == 1..Len(threads)

NoCall == [op |-> "none", ok |-> TRUE, mid |-> {}]

Init ==
    /\ jobs = <<>>
    /\ config = [max_retries |-> DefaultMaxRetries, backoff_base |-> DefaultBackoffBase]
    /\ workers = <<>>
    /\ threads = <<>>
    /\ now = 0
    /\ ret = NoCall
    /\ obs = <<>>
    /\ saving = <<>>

\* ---- the store lock --------------------------------------------------------
\* variant in which the command runs inside the first `with self._lock` block
LockedPositionsWithExec == {"exec"}

\* the positions at which a worker thread rests inside a `with self._lock`
\* block: none, the block of lines 130-156 is left before the command is run
\* and the block of lines 164-186 is entered after it has returned
LockedPositions == {}

\* self._lock can be acquired by `self` (0 is the calling thread of the control
\* operations): no save is in progress and no other thread rests inside a block
LockFree(self) ==
    /\ saving = <<>>
    /\ \A u \in Threads \ {self} : threads[u].pc \notin LockedPositions

\* ---- enqueue_job ----------------------------------------------------------
\* `max_retries or config["max_retries"]`: None and 0 are both falsy
OrConfig(given, max_retries, cfg) ==
    IF given /\ max_retries # 0 THEN max_retries ELSE cfg.max_retries

NewJob(id, given, max_retries, cfg) ==
    [id |-> id, state |-> "pending", attempts |-> 0,
     max_retries |-> OrConfig(given, max_retries, cfg),
     next_retry_at |-> Null]

EnqueueJob(given, max_retries) ==
    /\ LockFree(0)
    /\ Len(jobs) < MaxJobs
    /\ jobs' = Append(jobs, NewJob(Len(jobs) + 1, given, max_retries, config))
    /\ ret' = NoCall
    /\ UNCHANGED <<config, workers, threads, now>>

\* ---- retry_dlq_job --------------------------------------------------------
\* variant of the DLQ test that forgets the state
DlqMatchesAnyState(job, job_id) == job.id = job_id

\* next((i for i, job in enumerate(jobs) if id matches and state == "dead"), None)
DlqMatches(job, job_id) == job.id = job_id /\ job.state = "dead"

DlqIndex(js, job_id) ==
    IF \E i \in 1..Len(js) : DlqMatches(js[i], job_id)
    THEN CHOOSE i \in 1..Len(js) :
            /\ DlqMatches(js[i], job_id)
            /\ \A k \in 1..(i - 1) : ~DlqMatches(js[k], job_id)
    ELSE 0

Requeued(job) == [job EXCEPT !.state = "pending", !.attempts = 0, !.next_retry_at = Null]

RetryDlqJob(job_id) ==
    LET i == DlqIndex(jobs, job_id) IN
    /\ LockFree(0)
    /\ IF i = 0
       THEN /\ ret' = [op |-> "retry_dlq_job", ok |-> FALSE, mid |-> {}]
            /\ UNCHANGED jobs
       ELSE /\ jobs' = [jobs EXCEPT ![i] = Requeued(jobs[i])]
            /\ ret' = [op |-> "retry_dlq_job", ok |-> TRUE, mid |-> {}]
    /\ UNCHANGED <<config, workers, threads, now>>

\* ---- set_config -----------------------------------------------------------
SetConfig(key, value) ==
    /\ \/ key = "max_retries" /\ value \in ConfigRetryInputs
       \/ key = "backoff_base" /\ value \in BaseInputs
    /\ config' = IF key = "max_retries"
                 THEN [config EXCEPT !.max_retries = value]
                 ELSE [config EXCEPT !.backoff_base = value]
    /\ ret' = NoCall
    /\ UNCHANGED <<jobs, workers, threads, now>>

\* ---- process_job: the locked claim -----------------------------------------
\* variant of the selection test that takes a failed job before its retry time
EligibleIgnoresTime(job, t) ==
    \/ job.state = "pending"
    \/ /\ job.state = "failed"
       /\ job.next_retry_at # Null

\* variant of the selection test that also takes a job a worker already holds
EligibleAlsoProcessing(job, t) ==
    \/ job.state \in {"pending", "processing"}
    \/ /\ job.state = "failed"
       /\ job.next_retry_at # Null
       /\ job.next_retry_at <= t

\* the test of the selection loop, lines 139-146
Eligible(job, t) ==
    \/ job.state = "pending"
    \/ /\ job.state = "failed"
       /\ job.next_retry_at # Null
       /\ job.next_retry_at <= t

\* variant of the selection that looks for a pending job first and takes a due
\* retry only when there is none
SelectPendingFirst(js, t) ==
    IF \E i \in 1..Len(js) : js[i].state = "pending"
    THEN CHOOSE i \in 1..Len(js) :
            /\ js[i].state = "pending"
            /\ \A k \in 1..(i - 1) : js[k].state # "pending"
    ELSE IF \E i \in 1..Len(js) : Eligible(js[i], t)
    THEN CHOOSE i \in 1..Len(js) :
            /\ Eligible(js[i], t)
            /\ \A k \in 1..(i - 1) : ~Eligible(js[k], t)
    ELSE 0

\* first index the loop breaks at, 0 for job_index = None
SelectIndex(js, t) ==
    IF \E i \in 1..Len(js) : Eligible(js[i], t)
    THEN CHOOSE i \in 1..Len(js) :
            /\ Eligible(js[i], t)
            /\ \A k \in 1..(i - 1) : ~Eligible(js[k], t)
    ELSE 0

\* variant of the claim that also restarts the attempt count
ClaimedResetsAttempts(job) == [job EXCEPT !.state = "processing", !.attempts = 0]

\* "Lock the job": only the state (and updated_at) is written
Claimed(job) == [job EXCEPT !.state = "processing"]

Claim(t) ==
    /\ t \in Threads
    /\ threads[t].pc = "claim"
    /\ LockFree(t)
    /\ LET i == SelectIndex(jobs, now) IN
       IF i = 0
       THEN /\ threads' = [threads EXCEPT ![t].pc = "loop"]
            /\ UNCHANGED jobs
       ELSE /\ jobs' = [jobs EXCEPT ![i] = Claimed(jobs[i])]
            /\ threads' = [threads EXCEPT ![t].pc = "exec",
                                          ![t].job = jobs[i].id,
                                          ![t].base = config.backoff_base]
    /\ ret' = NoCall
    /\ UNCHANGED <<config, workers, now>>

\* ---- process_job: the locked outcome-apply --------------------------------
\* variant of the lookup that takes the first job in state processing
IndexOfProcessing(js, id) ==
    IF \E i \in 1..Len(js) : js[i].state = "processing"
    THEN CHOOSE i \in 1..Len(js) :
            js[i].state = "processing" /\ \A k \in 1..(i - 1) : js[k].state # "processing"
    ELSE 0

\* next((i for i, j in enumerate(jobs) if j["id"] == job["id"]), None)
IndexOfId(js, id) ==
    IF \E i \in 1..Len(js) : js[i].id = id
    THEN CHOOSE i \in 1..Len(js) : js[i].id = id /\ \A k \in 1..(i - 1) : js[k].id # id
    ELSE 0

\* config["backoff_base"] ** attempts, for attempts >= 1
RECURSIVE Pow(_, _)
Pow(b, n) == IF b = Inf THEN Inf ELSE IF n = 0 THEN 1 ELSE b * Pow(b, n - 1)

\* timedelta(seconds=delay) raises OverflowError on an infinite delay
DelayRaises(delay) == delay >= Inf

\* variant of the dead test that allows one execution more
IsDeadAfterOneMore(attempts, max_retries) == attempts > max_retries

\* the record written by lines 169-185; Raises is the exception of line 181
IsDead(attempts, max_retries) == attempts >= max_retries

\* variant of the failure record whose delay uses the retries that are left
FailedWithRemainingExponent(job, base, t) ==
    LET a == job.attempts + 1 IN
    IF IsDead(a, job.max_retries)
    THEN [job EXCEPT !.attempts = a, !.state = "dead"]
    ELSE [job EXCEPT !.attempts = a, !.state = "failed",
                     !.next_retry_at = t + Pow(base, job.max_retries - a)]

Failed(job, base, t) ==
    LET a == job.attempts + 1 IN
    IF IsDead(a, job.max_retries)
    THEN [job EXCEPT !.attempts = a, !.state = "dead"]
    ELSE [job EXCEPT !.attempts = a, !.state = "failed",
                     !.next_retry_at = t + Pow(base, a)]

Outcome(job, success, base, t) ==
    IF success THEN [job EXCEPT !.state = "completed"] ELSE Failed(job, base, t)

Raises(job, success, base) ==
    /\ ~success
    /\ ~IsDead(job.attempts + 1, job.max_retries)
    /\ DelayRaises(Pow(base, job.attempts + 1))

Apply(t, success) ==
    /\ t \in Threads
    /\ threads[t].pc = "exec"
    /\ LockFree(t)
    /\ LET i == IndexOfId(jobs, threads[t].job) IN
       IF i = 0 \/ Raises(jobs[i], success, threads[t].base)
       THEN UNCHANGED jobs
       ELSE jobs' = [jobs EXCEPT ![i] = Outcome(jobs[i], success, threads[t].base, now)]
    /\ threads' = [threads EXCEPT ![t].pc = "loop", ![t].job = 0, ![t].base = 0]
    /\ ret' = NoCall
    /\ UNCHANGED <<config, workers, now>>

\* ---- worker_loop ----------------------------------------------------------
\* `while not stop_event.is_set()`
LoopExits(th) == th.stop_event

LoopTest(t) ==
    /\ t \in Threads
    /\ threads[t].pc = "loop"
    /\ threads' = [threads EXCEPT ![t].pc = IF LoopExits(threads[t]) THEN "done" ELSE "claim"]
    /\ ret' = NoCall
    /\ UNCHANGED <<jobs, config, workers, now>>

\* ---- start_worker / start_workers -----------------------------------------
NewThread(wid) == [stop_event |-> FALSE, pc |-> "loop", job |-> 0, base |-> 0]

\* self.workers[worker_id] = {...}: the entry of an id already present is overwritten
Register(ws, wid, t) == [w \in (DOMAIN ws) \cup {wid} |-> IF w = wid THEN t ELSE ws[w]]

RECURSIVE StartLoop(_, _, _, _)
\* the for loop of start_workers from worker-i to worker-count: <<threads, workers>> after it
StartLoop(ths, ws, i, count) ==
    IF i > count THEN <<ths, ws>>
    ELSE StartLoop(Append(ths, NewThread(i)), Register(ws, i, Len(ths) + 1), i + 1, count)

StartWorkers(count) ==
    /\ Len(threads) + count <= MaxThreads
    /\ threads' = StartLoop(threads, workers, 1, count)[1]
    /\ workers' = StartLoop(threads, workers, 1, count)[2]
    /\ ret' = NoCall
    /\ UNCHANGED <<jobs, config, now>>

\* ---- stop_workers ---------------------------------------------------------
Signalled(ths, ws) ==
    [t \in 1..Len(ths) |->
        IF \E w \in DOMAIN ws : ws[w] = t THEN [ths[t] EXCEPT !.stop_event = TRUE] ELSE ths[t]]

MidExecution == {t \in Threads : threads[t].pc = "exec"}

StopWorkers ==
    /\ threads' = Signalled(threads, workers)
    /\ workers' = <<>>
    /\ ret' = [op |-> "stop_workers", ok |-> TRUE, mid |-> MidExecution]
    /\ UNCHANGED <<jobs, config, now>>

\* ---- the clock ------------------------------------------------------------
TickUpTo(limit) ==
    /\ now < limit
    /\ now' = now + 1
    /\ ret' = NoCall
    /\ UNCHANGED <<jobs, config, workers, threads>>

Tick == TickUpTo(MaxTime)

\* ---- what the run of a job shows ---------------------------------------------
\* obs[i] keeps, for job i since its enqueue or last requeue, the number of times
\* it was claimed, the delay printed at its last failure ("retrying in
\* {delay}s", line 183; 0 when none was printed) and the backoff_base that
\* delay was computed from
NoObs == [claims |-> 0, delay |-> 0, base |-> 0]

\* the backoff_base read by the worker that holds job id
HolderBase(id) ==
    IF \E t \in Threads : threads[t].pc = "exec" /\ threads[t].job = id
    THEN threads[CHOOSE t \in Threads : threads[t].pc = "exec" /\ threads[t].job = id].base
    ELSE 0

Observed(i) ==
    IF i > Len(jobs) THEN NoObs
    ELSE IF jobs[i].state = "dead" /\ jobs'[i].state = "pending" THEN NoObs
    ELSE IF jobs[i].state # "processing" /\ jobs'[i].state = "processing"
    THEN [obs[i] EXCEPT !.claims = @ + 1]
    ELSE IF jobs[i].state = "processing" /\ jobs'[i].state = "failed"
    THEN [obs[i] EXCEPT !.delay = jobs'[i].next_retry_at - now,
                        !.base = HolderBase(jobs[i].id)]
    ELSE obs[i]

Track == obs' = [i \in 1..Len(jobs') |-> Observed(i)]

\* save_jobs as one step: every writer of the job file runs under self._lock,
\* so no writer sees another writer's save in progress (RaceSpec splits the
\* save for the readers that take no lock)
Atomic == Track /\ saving' = <<>>

Next ==
    \/ \E given \in BOOLEAN, m \in RetryInputs : EnqueueJob(given, m) /\ Atomic
    \/ \E id \in IdInputs : RetryDlqJob(id) /\ Atomic
    \/ \E key \in {"max_retries", "backoff_base"}, v \in ConfigRetryInputs \cup BaseInputs :
          SetConfig(key, v) /\ Atomic
    \/ \E n \in 1..MaxCount : StartWorkers(n) /\ Atomic
    \/ StopWorkers /\ Atomic
    \/ \E t \in Threads : LoopTest(t) /\ Atomic
    \/ \E t \in Threads : Claim(t) /\ Atomic
    \/ \E t \in Threads, success \in BOOLEAN : Apply(t, success) /\ Atomic
    \/ Tick /\ Atomic

Spec == Init /\ [][Next]_vars

\* one step of worker thread t; the interpreter schedules every live thread and
\* execute_command returns within its 30 s timeout
WorkerStep(t) ==
    (LoopTest(t) \/ Claim(t) \/ \E success \in BOOLEAN : Apply(t, success)) /\ Atomic

FairSpec == Spec /\ \A t \in 1..MaxThreads : WF_vars(WorkerStep(t))

\* the same operations on a store that takes one job and one start_workers call,
\* with a clock that runs long enough for the retries of that job
BackoffNext ==
    \/ \E given \in BOOLEAN, m \in RetryInputs :
          jobs = <<>> /\ EnqueueJob(given, m) /\ Atomic
    \/ \E id \in IdInputs : RetryDlqJob(id) /\ Atomic
    \/ \E key \in {"max_retries", "backoff_base"}, v \in ConfigRetryInputs \cup BaseInputs :
          SetConfig(key, v) /\ Atomic
    \/ \E n \in 1..MaxCount : threads = <<>> /\ StartWorkers(n) /\ Atomic
    \/ StopWorkers /\ Atomic
    \/ \E t \in Threads : LoopTest(t) /\ Atomic
    \/ \E t \in Threads : Claim(t) /\ Atomic
    \/ \E t \in Threads, success \in BOOLEAN : Apply(t, success) /\ Atomic
    \/ TickUpTo(MaxClock) /\ Atomic

BackoffSpec == Init /\ [][BackoffNext]_vars

\* ---- properties -------------------------------------------------------------
JobIndexes == 1..Len(jobs)

Holds(t, id) == threads[t].pc = "exec" /\ threads[t].job = id

\* C1: no job is processed twice at once: between its claim and its
\* outcome-apply a worker is the only holder of its job, and that job is in
\* state processing, in every interleaving of the workers.
C1_NoJobProcessedTwice ==
    \A t1 \in Threads : \A t2 \in Threads : \A i \in JobIndexes :
        (Holds(t1, jobs[i].id) /\ Holds(t2, jobs[i].id)) =>
            (t1 = t2 /\ jobs[i].state = "processing")

\* two workers are in their execution phase at the same time
C1_Witness ==
    \E t1 \in Threads : \E t2 \in Threads :
        /\ t1 # t2
        /\ threads[t1].pc = "exec"
        /\ threads[t2].pc = "exec"

\* C2: for every job next_retry_at is non-null if and only if state = failed.
C2_NextRetryIffFailed ==
    \A i \in JobIndexes : (jobs[i].next_retry_at # Null) <=> (jobs[i].state = "failed")

\* C3: a job with max_retries = m >= 1 that is dead after its m-th failure has
\* attempts = m and next_retry_at = null.
C3_DeadAfterLastFailure ==
    \A i \in JobIndexes :
        (jobs[i].state = "dead" /\ jobs[i].max_retries >= 1) =>
            (jobs[i].attempts = jobs[i].max_retries /\ jobs[i].next_retry_at = Null)

\* C4: every job whose state is pending, processing or failed has
\* attempts < max_retries.
C4_AttemptsBelowMaxRetries ==
    \A i \in JobIndexes :
        jobs[i].state \in {"pending", "processing", "failed"} =>
            jobs[i].attempts < jobs[i].max_retries

\* C5: enqueue_job stores the explicit max_retries it is given, whatever the
\* configuration, and the configuration's max_retries when it is given none.
C5_EnqueueStoresMaxRetries ==
    [][\A given \in BOOLEAN : \A m \in RetryInputs :
          EnqueueJob(given, m) =>
              jobs'[Len(jobs')].max_retries = (IF given THEN m ELSE config.max_retries)]_vars

\* a pending job exists / the first of them in store order
HasPending == \E i \in JobIndexes : jobs[i].state = "pending"

FirstPending ==
    CHOOSE i \in JobIndexes :
        /\ jobs[i].state = "pending"
        /\ \A k \in 1..(i - 1) : jobs[k].state # "pending"

\* job i is pending, or failed with a retry time that has elapsed
Due(i) ==
    \/ jobs[i].state = "pending"
    \/ jobs[i].state = "failed" /\ jobs[i].next_retry_at # Null /\ jobs[i].next_retry_at <= now

BecomesProcessing(i) == jobs[i].state # "processing" /\ jobs'[i].state = "processing"

\* C6 as stated: whenever the store holds a pending job, the job a claim takes
\* is the first pending job in store order.
C6_PendingPreferred ==
    [][\A t \in Threads :
          (Claim(t) /\ HasPending) => BecomesProcessing(FirstPending)]_vars

\* C6 as amended: the job a claim takes is the first job in store order that is
\* pending or a failed job whose next_retry_at has elapsed; nothing is claimed
\* exactly when there is no such job.
C6_FirstEligibleInStoreOrder ==
    [][\A t \in Threads :
          Claim(t) =>
              /\ \A i \in JobIndexes :
                    BecomesProcessing(i) <=> (Due(i) /\ \A k \in 1..(i - 1) : ~Due(k))
              /\ Len(jobs') = Len(jobs)]_vars

\* a worker holds a retried job that stands before a pending job in the store
C6_Witness ==
    \E t \in Threads : \E i \in JobIndexes : \E k \in JobIndexes :
        /\ i < k
        /\ Holds(t, jobs[i].id)
        /\ jobs[i].attempts >= 1
        /\ jobs[i].next_retry_at # Null
        /\ jobs[k].state = "pending"

\* C7: once stop_workers has returned, and until workers are started again (the
\* worker registry stays empty), no job goes to processing.
C7_NoClaimAfterStop ==
    [][(DOMAIN workers = {} /\ DOMAIN workers' = {}) =>
          \A i \in JobIndexes : ~BecomesProcessing(i)]_vars

\* stop_workers has just been called while thread t was executing a command
StoppedMidExecution(t) == ret.op = "stop_workers" /\ t \in ret.mid

\* C8: a worker that is mid-execution when stop_workers is called applies the
\* outcome, so its job leaves processing, and then exits its loop.
C8_StopLetsWorkerFinish ==
    \A t \in 1..MaxThreads :
        /\ StoppedMidExecution(t) ~> (t \in Threads /\ threads[t].pc = "done")
        /\ \A id \in IdInputs :
              (StoppedMidExecution(t) /\ threads[t].job = id)
                  ~> (\E i \in JobIndexes : jobs[i].id = id /\ jobs[i].state # "processing")

\* C9: every running worker loop that has not been signalled is registered in
\* self.workers, so stop_workers reaches it (a second start_workers does not
\* leave a second loop running for an id).
Registered(t) == \E w \in DOMAIN workers : workers[w] = t

C9_RunningWorkersReachable ==
    \A t \in Threads :
        (threads[t].pc # "done" /\ ~threads[t].stop_event) => Registered(t)

\* C10: retry_dlq_job(id) succeeds exactly when id names a dead job, and then
\* that job is pending with attempts 0 and no next_retry_at while the other jobs
\* are untouched; otherwise it raises and the job collection is unchanged.
NamesDeadJob(id) == \E i \in JobIndexes : jobs[i].id = id /\ jobs[i].state = "dead"

C10_RetryDlqJob ==
    [][\A id \in IdInputs :
          RetryDlqJob(id) =>
              IF NamesDeadJob(id)
              THEN /\ ret'.ok
                   /\ Len(jobs') = Len(jobs)
                   /\ \A i \in JobIndexes :
                         IF jobs[i].id = id
                         THEN /\ jobs'[i].state = "pending"
                              /\ jobs'[i].attempts = 0
                              /\ jobs'[i].next_retry_at = Null
                              /\ jobs'[i].max_retries = jobs[i].max_retries
                         ELSE jobs'[i] = jobs[i]
              ELSE ~ret'.ok /\ jobs' = jobs]_vars

\* retry_dlq_job has just requeued a job that had died after a retry
C10_Witness ==
    /\ ret.op = "retry_dlq_job"
    /\ ret.ok
    /\ \E i \in JobIndexes :
          /\ jobs[i].state = "pending"
          /\ jobs[i].attempts = 0
          /\ jobs[i].max_retries >= 2

\* C11: the outcome-apply of a failed execution that leaves the job below its
\* max_retries stores attempts + 1 (k after the k-th failure), state failed and
\* next_retry_at = now + backoff_base^attempts, backoff_base being the
\* configuration's value (as process_job read it, or as it is now).
C11_FailureSchedulesRetry ==
    [][\A t \in Threads : \A i \in JobIndexes :
          (/\ Apply(t, FALSE)
           /\ Holds(t, jobs[i].id)
           /\ jobs[i].attempts + 1 < jobs[i].max_retries) =>
              /\ jobs'[i].attempts = jobs[i].attempts + 1
              /\ jobs'[i].state = "failed"
              /\ jobs'[i].next_retry_at \in
                    {now + Pow(threads[t].base, jobs[i].attempts + 1),
                     now + Pow(config.backoff_base, jobs[i].attempts + 1)}]_vars

\* C12: no update to the job store is lost: no step removes or renumbers a job,
\* a worker's claim or outcome-apply rewrites only the job that worker claims or
\* holds, enqueue_job keeps every stored record and retry_dlq_job rewrites only
\* the job it names.
C12_NoLostUpdate ==
    [][/\ Len(jobs') >= Len(jobs)
       /\ \A i \in JobIndexes : jobs'[i].id = jobs[i].id
       /\ \A t \in Threads :
             (Claim(t) \/ \E success \in BOOLEAN : Apply(t, success)) =>
                 /\ Len(jobs') = Len(jobs)
                 /\ \A i \in JobIndexes :
                       jobs'[i] # jobs[i] =>
                           (threads[t].job = jobs[i].id \/ threads'[t].job = jobs[i].id)
       /\ \A given \in BOOLEAN : \A m \in RetryInputs :
             EnqueueJob(given, m) => \A i \in JobIndexes : jobs'[i] = jobs[i]
       /\ \A id \in IdInputs :
             RetryDlqJob(id) => \A i \in JobIndexes : jobs'[i] # jobs[i] => jobs[i].id = id]_vars

\* one worker's outcome is stored while another worker holds a later job
C12_Witness ==
    /\ Len(jobs) = 2
    /\ jobs[1].state \in {"completed", "failed", "dead"}
    /\ jobs[2].state = "processing"
    /\ \E t \in Threads : Holds(t, jobs[2].id)

\* C13 as stated: a new job has attempts = 0 and no step makes the attempts of
\* a job smaller.
C13_AttemptsNeverDecrease ==
    [][/\ \A i \in (Len(jobs) + 1)..Len(jobs') : jobs'[i].attempts = 0
       /\ \A i \in JobIndexes : jobs'[i].attempts >= jobs[i].attempts]_vars

\* C13 as amended: a new job has attempts = 0, and the attempts of a job get
\* smaller only when retry_dlq_job takes it from dead to pending, which sets
\* them to 0.
C13_AttemptsDecreaseOnlyOnRequeue ==
    [][/\ \A i \in (Len(jobs) + 1)..Len(jobs') : jobs'[i].attempts = 0
       /\ \A i \in JobIndexes :
             \/ jobs'[i].attempts >= jobs[i].attempts
             \/ /\ jobs[i].state = "dead"
                /\ jobs'[i].state = "pending"
                /\ jobs'[i].attempts = 0
                /\ ret'.op = "retry_dlq_job"]_vars

\* retry_dlq_job has just put back a job that had died at its first failure
C13_Witness ==
    /\ ret.op = "retry_dlq_job"
    /\ ret.ok
    /\ \E i \in JobIndexes :
          /\ jobs[i].state = "pending"
          /\ jobs[i].attempts = 0
          /\ jobs[i].max_retries < 2
          /\ obs[i] = NoObs

\* C14: every change of a job's state is one of the six listed transitions; a
\* completed job never changes, a dead job changes only in a retry_dlq_job
\* step, and an outcome-apply rewrites only a job whose state is processing.
AllowedTransitions ==
    {<<"pending", "processing">>, <<"failed", "processing">>,
     <<"processing", "completed">>, <<"processing", "failed">>,
     <<"processing", "dead">>, <<"dead", "pending">>}

C14_OnlyListedTransitions ==
    [][\A i \in JobIndexes :
          /\ jobs'[i].state # jobs[i].state =>
                <<jobs[i].state, jobs'[i].state>> \in AllowedTransitions
          /\ jobs[i].state = "completed" => jobs'[i] = jobs[i]
          /\ (jobs[i].state = "dead" /\ jobs'[i] # jobs[i]) => ret'.op = "retry_dlq_job"
          /\ \A t \in Threads : \A success \in BOOLEAN :
                (Apply(t, success) /\ jobs'[i] # jobs[i]) => jobs[i].state = "processing"]_vars

\* a job completed at a retry: pending, processing, failed, processing, completed
C14_Witness ==
    \E i \in JobIndexes : jobs[i].state = "completed" /\ jobs[i].attempts >= 1

\* C16: a failed job goes to processing only when its next_retry_at is set and
\* not later than the current time.
C16_RetryOnlyWhenDue ==
    [][\A i \in JobIndexes :
          (jobs[i].state = "failed" /\ jobs'[i].state = "processing") =>
              (jobs[i].next_retry_at # Null /\ jobs[i].next_retry_at <= now)]_vars

\* a worker holds a job it claimed for a retry, and a failed job whose retry
\* time has not come is still failed
C16_Witness ==
    \E t \in Threads : \E i \in JobIndexes : \E k \in JobIndexes :
        /\ Holds(t, jobs[i].id)
        /\ jobs[i].attempts >= 1
        /\ jobs[i].next_retry_at <= now
        /\ jobs[k].state = "failed"
        /\ jobs[k].next_retry_at > now

\* job i fails again: it had failed before, since its enqueue or last requeue
FailsAgain(i) ==
    /\ jobs[i].state = "processing"
    /\ jobs'[i].state = "failed"
    /\ jobs[i].attempts >= 1

\* C15 as stated: the delay computed at a failure of a job is no smaller than
\* the delay computed at its previous failure, whatever set_config did between.
C15_BackoffMonotonic ==
    [][\A i \in JobIndexes : FailsAgain(i) => obs'[i].delay >= obs[i].delay]_vars

\* C15 as amended: the delay is no smaller than at the previous failure when
\* both were computed from the same backoff_base and that base is at least 1.
C15_BackoffMonotonicForOneBase ==
    [][\A i \in JobIndexes :
          (FailsAgain(i) /\ obs'[i].base = obs[i].base /\ obs'[i].base >= 1) =>
              obs'[i].delay >= obs[i].delay]_vars

\* a job has failed twice with one base above 1: the second delay is its square
C15_Witness ==
    \E i \in JobIndexes :
        /\ jobs[i].state = "failed"
        /\ jobs[i].attempts >= 2
        /\ obs[i].base > 1
        /\ obs[i].delay = obs[i].base * obs[i].base

\* C20: between its enqueue or last requeue and the next requeue, a job with
\* max_retries = m >= 1 is claimed at most m times, and a completed or dead job
\* is never claimed.
C20_ClaimsBoundedByMaxRetries ==
    [][\A i \in JobIndexes :
          /\ jobs'[i].max_retries >= 1 => obs'[i].claims <= jobs'[i].max_retries
          /\ jobs[i].state \in {"completed", "dead"} => jobs'[i].state # "processing"]_vars

\* a job was claimed max_retries = 2 times, failed both times and is dead
C20_Witness ==
    \E i \in JobIndexes :
        /\ jobs[i].max_retries = 2
        /\ obs[i].claims = 2
        /\ jobs[i].state = "dead"

\* C19: the store lock is not held while a command executes: while a worker is
\* between its claim and its outcome-apply, another worker that is about to
\* claim can take the lock, and takes a different job if one is eligible, and
\* enqueue_job and retry_dlq_job can complete.
C19_LockFreeDuringExecution ==
    \A t \in Threads :
        threads[t].pc = "exec" =>
            /\ \A u \in Threads \ {t} :
                  threads[u].pc = "claim" =>
                      /\ ENABLED (Claim(u) /\ Atomic)
                      /\ SelectIndex(jobs, now) # 0 =>
                            ENABLED (/\ Claim(u) /\ Atomic
                                     /\ threads'[u].pc = "exec"
                                     /\ threads'[u].job # threads[t].job)
            /\ Len(jobs) < MaxJobs => ENABLED (EnqueueJob(TRUE, 2) /\ Atomic)
            /\ \A id \in IdInputs : ENABLED (RetryDlqJob(id) /\ Atomic)

\* two workers execute two different jobs at the same time
C19_Witness ==
    \E t \in Threads, u \in Threads :
        /\ t # u
        /\ threads[t].pc = "exec"
        /\ threads[u].pc = "exec"
        /\ threads[t].job # threads[u].job

\* ---- unexpected errors in a worker's cycle ---------------------------------
\* An error raised in the claim phase (lines 130-156: an unreadable job or
\* configuration file, a record whose next_retry_at is not a timestamp, a
\* failing save_jobs) is raised outside the try of process_job; worker_loop has
\* no handler, so the exception ends the thread.  `with self._lock` releases
\* the lock.
ClaimError(t) ==
    /\ t \in Threads
    /\ threads[t].pc = "claim"
    /\ LockFree(t)
    /\ threads' = [threads EXCEPT ![t].pc = "crashed"]
    /\ ret' = NoCall
    /\ UNCHANGED <<jobs, config, workers, now>>

\* An error raised between the claim and the end of the outcome-apply is
\* caught by `except Exception` (line 188): nothing is saved, process_job
\* returns and the loop goes on.
ApplyError(t) ==
    /\ t \in Threads
    /\ threads[t].pc = "exec"
    /\ LockFree(t)
    /\ threads' = [threads EXCEPT ![t].pc = "loop", ![t].job = 0, ![t].base = 0]
    /\ ret' = NoCall
    /\ UNCHANGED <<jobs, config, workers, now>>

FaultNext ==
    \/ Next
    \/ \E t \in Threads : ClaimError(t) /\ Atomic
    \/ \E t \in Threads : ApplyError(t) /\ Atomic

FaultSpec == Init /\ [][FaultNext]_vars

\* C18: an unexpected error raised at any point of a worker's cycle does not
\* terminate the worker: after the error the worker is back at the head of its
\* loop.
C18_ErrorDoesNotEndWorker ==
    [][\A t \in Threads :
          (ClaimError(t) \/ ApplyError(t)) => threads'[t].pc = "loop"]_vars

\* ---- reads that take no lock -------------------------------------------------
\* save_jobs opens the job file with mode 'w', which empties it, and then
\* writes the collection.  `saving` is <<>> when no save is in progress and
\* <<old>> between the two, old being the collection the file held before.
TwoPhase == Track /\ saving' = IF jobs' # jobs THEN <<jobs>> ELSE saving

\* the second half of save_jobs: the collection is written and the file closed
FinishSave ==
    /\ saving # <<>>
    /\ saving' = <<>>
    /\ ret' = NoCall
    /\ UNCHANGED <<jobs, config, workers, threads, now, obs>>

\* get_jobs: json.load of an emptied or half-written file raises
\* JSONDecodeError, which get_jobs turns into []
GetJobs == IF saving # <<>> THEN <<>> ELSE jobs

\* list_jobs / get_status: get_jobs without self._lock.  ok records whether the
\* collection read was the content of the store before or after the save.
ListJobs ==
    /\ ret' = [op |-> "list_jobs",
               ok |-> \/ GetJobs = jobs
                      \/ saving # <<>> /\ GetJobs = saving[1],
               mid |-> {}]
    /\ UNCHANGED <<jobs, config, workers, threads, now, obs, saving>>

RaceNext ==
    \/ \E given \in BOOLEAN, m \in RetryInputs : EnqueueJob(given, m) /\ TwoPhase
    \/ \E id \in IdInputs : RetryDlqJob(id) /\ TwoPhase
    \/ \E n \in 1..MaxCount : StartWorkers(n) /\ TwoPhase
    \/ StopWorkers /\ TwoPhase
    \/ \E t \in Threads : LoopTest(t) /\ TwoPhase
    \/ \E t \in Threads : Claim(t) /\ TwoPhase
    \/ \E t \in Threads, success \in BOOLEAN : Apply(t, success) /\ TwoPhase
    \/ Tick /\ TwoPhase
    \/ FinishSave
    \/ ListJobs

RaceSpec == Init /\ [][RaceNext]_vars

\* C17: every list_jobs / get_status / get_jobs call that runs while a save is
\* in progress observes a collection that was the store's content at some
\* instant, never the empty or partial file of the save in progress.
C17_ReadsSeeStoredCollection == ret.op = "list_jobs" => ret.ok

\* ---- time that never stops ---------------------------------------------------
\* The selection only compares next_retry_at with datetime.now() (line 144)
\* and a failure only stores now + delay (line 181), so a behaviour is the same
\* when every timestamp is moved by the same amount.  Here a second that
\* passes moves the stored timestamps one back instead of moving now forward;
\* a timestamp that is not after now is in the past for good.
Earlier(job) ==
    IF job.next_retry_at > now
    THEN [job EXCEPT !.next_retry_at = @ - 1]
    ELSE job

Elapse ==
    /\ jobs' = [i \in JobIndexes |-> Earlier(jobs[i])]
    /\ ret' = NoCall
    /\ UNCHANGED <<config, workers, threads, now>>

LiveNext ==
    \/ \E given \in BOOLEAN, m \in RetryInputs : EnqueueJob(given, m) /\ Atomic
    \/ \E id \in IdInputs : RetryDlqJob(id) /\ Atomic
    \/ \E key \in {"max_retries", "backoff_base"}, v \in ConfigRetryInputs \cup BaseInputs :
          SetConfig(key, v) /\ Atomic
    \/ \E n \in 1..MaxCount : StartWorkers(n) /\ Atomic
    \/ StopWorkers /\ Atomic
    \/ \E t \in Threads : LoopTest(t) /\ Atomic
    \/ \E t \in Threads : Claim(t) /\ Atomic
    \/ \E t \in Threads, success \in BOOLEAN : Apply(t, success) /\ Atomic
    \/ Elapse /\ Atomic

\* every worker thread is scheduled, every command returns, and time passes
LiveSpec ==
    /\ Init /\ [][LiveNext]_vars
    /\ \A t \in 1..MaxThreads : WF_vars(WorkerStep(t))
    /\ WF_vars(Elapse /\ Atomic)

\* a worker loop that runs and has not been told to stop
Running(t) == threads[t].pc # "done" /\ ~threads[t].stop_event

Finished(i) == i \in JobIndexes /\ jobs[i].state \in {"completed", "dead"}

\* a job left in processing by an outcome-apply that raised: no worker holds it
Abandoned(i) ==
    /\ i \in JobIndexes
    /\ jobs[i].state = "processing"
    /\ ~\E t \in Threads : threads[t].pc = "exec" /\ threads[t].job = jobs[i].id

\* C21: while at least one worker is running and not stopped, every enqueued
\* job eventually reaches completed or dead, whatever else is enqueued, unless
\* an error left it in processing.
C21_EveryJobFinishes ==
    \A i \in 1..MaxJobs :
        (i \in JobIndexes /\ ~Finished(i))
            ~> (Finished(i) \/ Abandoned(i) \/ ~\E t \in Threads : Running(t))

====
